---- MODULE Spec2Model ----
(***************************************************************************)
(* Finance Robot API: the in-memory transaction store, manual entry, CSV   *)
(* import, reset and the totals aggregation of the Express server.         *)
(*                                                                         *)
(* Values.  A JavaScript string is a TLA+ string.  A value that may be     *)
(* undefined is a sequence: <<>> is undefined and <<s>> is the string s.   *)
(* A JavaScript number is an IEEE 754 binary64 value, the record           *)
(* [nan, inf, neg, m, e]: NaN has nan, the infinities have inf and the     *)
(* sign neg, and a finite number is (-1)^neg * m * 2^e, where m is a       *)
(* natural number of any size written as the sequence of its digits in     *)
(* base 2^15, lowest first, and is odd; zero is m = <<>>, e = 0 and keeps  *)
(* its sign.  Number(), +, -, /, < and String() are computed to the bit.   *)
(***************************************************************************)
EXTENDS Integers, Sequences, FiniteSets, TLC

\* transactions: the in-memory store
\* issued:       how many identifiers crypto.randomUUID() has handed out
\* res:          the response to the last request answered
\* pending:      a request prepared by a client and not sent yet; only the
\*               specifications about one request start with one
\* uploads:      the documents handed to csv-parse whose callback has not
\*               run yet, oldest first
VARIABLES transactions, issued, res, pending, uploads

vars == <<transactions, issued, res, pending, uploads>>

(***************************************************************************)
(* Bounds                                                                  *)
(***************************************************************************)
\* number of identifiers crypto.randomUUID() may hand out in one behaviour
MaxIds == 3
\* number of text lines below the header line of a document uploaded to the
\* running server
MaxServerRows == 1
\* number of text lines below the header line of the document of the
\* specification about one upload
MaxRows == 2

\* the most lines of a document long enough to overflow the sample
MaxSampleRows == 6
\* number of uploads csv-parse may hold at one time
MaxInFlight == 1

(***************************************************************************)
(* Strings                                                                 *)
(***************************************************************************)
\* the member of a set of one member; written Only({F(x) : x \in {e}}), it
\* computes e once however often F uses x
Only(S) == CHOOSE x \in S : TRUE

\* the highest member of a nonempty set of integers
MaxOf(S) == CHOOSE i \in S : \A j \in S : j <= i

\* the lowest member of a nonempty set of integers
MinOf(S) == CHOOSE i \in S : \A j \in S : i <= j

Undefined == <<>>

Str(s) == <<s>>

Digits == "0123456789"

\* position of the one-character string c in s, 0 when it does not occur
IndexOf(s, c) ==
  IF \E i \in 1..Len(s) : SubSeq(s, i, i) = c
  THEN CHOOSE i \in 1..Len(s) : SubSeq(s, i, i) = c
  ELSE 0

\* the vertical tab, U+000B, the one character of the string
VerticalTab == ""

\* the white space and line terminators of ECMAScript that a TLA+ string can
\* hold: space, tab, line feed, vertical tab, form feed, carriage return
IsSpace(c) == c \in {" ", "\t", "\n", VerticalTab, "\f", "\r"}

\* the lower-case letter of every upper-case letter
LowerOf ==
  ("A" :> "a") @@ ("B" :> "b") @@ ("C" :> "c") @@ ("D" :> "d") @@ ("E" :> "e")
  @@ ("F" :> "f") @@ ("G" :> "g") @@ ("H" :> "h") @@ ("I" :> "i") @@ ("J" :> "j")
  @@ ("K" :> "k") @@ ("L" :> "l") @@ ("M" :> "m") @@ ("N" :> "n") @@ ("O" :> "o")
  @@ ("P" :> "p") @@ ("Q" :> "q") @@ ("R" :> "r") @@ ("S" :> "s") @@ ("T" :> "t")
  @@ ("U" :> "u") @@ ("V" :> "v") @@ ("W" :> "w") @@ ("X" :> "x") @@ ("Y" :> "y")
  @@ ("Z" :> "z")

UpperLetters == DOMAIN LowerOf

\* s.charAt(i - 1)
CharAt(s, i) == SubSeq(s, i, i)

toLowerCase(s) ==
  LET low[i \in 0..Len(s)] ==
        IF i = 0 THEN ""
        ELSE low[i - 1] \o (IF CharAt(s, i) \in UpperLetters
                            THEN LowerOf[CharAt(s, i)] ELSE CharAt(s, i))
  IN low[Len(s)]

\* positions of the characters of s that are not whitespace
InkAt(s) == {i \in 1..Len(s) : ~IsSpace(CharAt(s, i))}

trim(str) ==
  Only({IF InkAt(s) = {} THEN "" ELSE SubSeq(s, MinOf(InkAt(s)), MaxOf(InkAt(s))) :
        s \in {str}})

includes(s, k) ==
  \E i \in 1..(Len(s) - Len(k) + 1) : SubSeq(s, i, i + Len(k) - 1) = k

startsWith(s, k) == Len(s) >= Len(k) /\ SubSeq(s, 1, Len(k)) = k

endsWith(s, k) == Len(s) >= Len(k) /\ SubSeq(s, Len(s) - Len(k) + 1, Len(s)) = k

slice10(s) == SubSeq(s, 1, IF Len(s) < 10 THEN Len(s) ELSE 10)

\* s.replace(/[,$()]/g, "")
stripMoney(s) ==
  LET kept[i \in 0..Len(s)] ==
        IF i = 0 THEN ""
        ELSE kept[i - 1] \o (IF CharAt(s, i) \in {",", "$", "(", ")"}
                             THEN "" ELSE CharAt(s, i))
  IN kept[Len(s)]

\* String(v ?? "") of a value that may be undefined
StringOrEmpty(v) == IF v = Undefined THEN "" ELSE v[1]

\* String(v) of a value that may be undefined
StringOf(v) == IF v = Undefined THEN "undefined" ELSE v[1]

\* JavaScript truthiness of a string that may be undefined
Truthy(v) == v # Undefined /\ v[1] # ""

\* a || b
OrElse(a, b) == IF Truthy(a) THEN a ELSE b

(***************************************************************************)
(* Natural numbers of any size: the sequence of their digits in base Base, *)
(* lowest digit first, no zero digit at the top; <<>> is zero.             *)
(***************************************************************************)
Base == 32768

BaseBits == 15

RECURSIVE Pow2(_)
Pow2(k) == IF k = 0 THEN 1 ELSE 2 * Pow2(k - 1)

\* a without the zero digits at its top
BNorm(digits) ==
  Only({IF a = <<>> \/ a[Len(a)] # 0 THEN a
        ELSE SubSeq(a, 1, MaxOf({0} \cup {i \in 1..Len(a) : a[i] # 0})) :
        a \in {digits}})

BOfInt(n) == BNorm(<<n % Base, (n \div Base) % Base, n \div (Base * Base)>>)

BDigit(a, i) == IF i <= Len(a) THEN a[i] ELSE 0

\* -1, 0 or 1 as a < b, a = b, a > b
BCmp(x, y) ==
  Only({IF Len(a) < Len(b) THEN -1
        ELSE IF Len(a) > Len(b) THEN 1
        ELSE IF a = b THEN 0
        ELSE IF \E i \in 1..Len(a) :
                  a[i] < b[i] /\ \A j \in (i + 1)..Len(a) : a[j] = b[j]
             THEN -1 ELSE 1 :
        a \in {x}, b \in {y}})

\* digit sums, each below 2 * Base, brought back below Base: a carry enters
\* digit i when a lower digit overflows and every digit between them is
\* Base - 1
BCarry(sums) ==
  Only({BNorm([i \in 1..(Len(s) + 1) |->
                 (BDigit(s, i) +
                  (IF \E j \in 1..(i - 1) :
                        /\ s[j] >= Base
                        /\ \A k \in (j + 1)..(i - 1) : s[k] = Base - 1
                   THEN 1 ELSE 0)) % Base]) :
        s \in {sums}})

\* x + y
BAdd(x, y) ==
  Only({IF a = <<>> THEN b
        ELSE IF b = <<>> THEN a
        ELSE BCarry([i \in 1..(IF Len(a) > Len(b) THEN Len(a) ELSE Len(b)) |->
                       BDigit(a, i) + BDigit(b, i)]) :
        a \in {x}, b \in {y}})

\* x - y for x >= y: a borrow leaves digit i when a lower digit falls short
\* and every digit between them is level
BSub(x, y) ==
  Only({IF b = <<>> THEN a
        ELSE BNorm([i \in 1..Len(a) |->
               (a[i] - BDigit(b, i) + Base -
                (IF \E j \in 1..(i - 1) :
                      /\ a[j] < BDigit(b, j)
                      /\ \A k \in (j + 1)..(i - 1) : a[k] = BDigit(b, k)
                 THEN 1 ELSE 0)) % Base]) :
        a \in {x}, b \in {y}})

\* x * k for 0 <= k < Base
BMulSmall(x, k) ==
  Only({IF k = 0 \/ a = <<>> THEN <<>>
        ELSE IF k = 1 THEN a
        ELSE BCarry([i \in 1..(Len(a) + 1) |->
                       ((BDigit(a, i) * k) % Base) +
                       (IF i = 1 THEN 0 ELSE (a[i - 1] * k) \div Base)]) :
        a \in {x}})

RECURSIVE BitsOfInt(_)
BitsOfInt(n) == IF n = 0 THEN 0 ELSE 1 + BitsOfInt(n \div 2)

\* the number of binary digits of x
BBits(x) ==
  Only({IF a = <<>> THEN 0 ELSE BaseBits * (Len(a) - 1) + BitsOfInt(a[Len(a)]) :
        a \in {x}})

\* x * 2^k
BShl(x, k) ==
  Only({IF a = <<>> THEN <<>>
        ELSE [i \in 1..(k \div BaseBits) |-> 0] \o BMulSmall(a, Pow2(k % BaseBits)) :
        a \in {x}})

\* binary digit i of a, the lowest being digit 0
BBit(a, i) ==
  (BDigit(a, (i \div BaseBits) + 1) \div Pow2(i % BaseBits)) % 2

\* floor(x / 2^k)
BShr(x, k) ==
  Only({BNorm([i \in 1..Len(rest) |->
                 (rest[i] \div p) + (BDigit(rest, i + 1) % p) * (Base \div p)]) :
        rest \in {SubSeq(x, (k \div BaseBits) + 1, Len(x))},
        p \in {Pow2(k % BaseBits)}})

\* one step of long division at binary digit i of a, from the quotient
\* qr[1] and the remainder qr[2] so far
BDivStep(a, b, i, qr) ==
  Only({IF BCmp(r2, b) >= 0
        THEN <<BAdd(BMulSmall(qr[1], 2), <<1>>), BSub(r2, b)>>
        ELSE <<BMulSmall(qr[1], 2), r2>> :
        r2 \in {BAdd(BMulSmall(qr[2], 2), IF BBit(a, i) = 1 THEN <<1>> ELSE <<>>)}})

\* the steps of long division at the binary digits hi down to lo of a
RECURSIVE BDivFrom(_, _, _, _, _)
BDivFrom(a, b, hi, lo, qr) ==
  IF hi < lo THEN qr
  ELSE IF hi = lo THEN BDivStep(a, b, hi, qr)
  ELSE Only({BDivFrom(a, b, ((hi + lo + 1) \div 2) - 1, lo, upper) :
             upper \in {BDivFrom(a, b, hi, (hi + lo + 1) \div 2, qr)}})

RECURSIVE TrailingOfInt(_)
TrailingOfInt(n) == IF n % 2 = 1 THEN 0 ELSE 1 + TrailingOfInt(n \div 2)

\* the number of zero binary digits at the low end of a # 0
BTrailing(a) ==
  Only({BaseBits * (low - 1) + TrailingOfInt(a[low]) :
        low \in {MinOf({i \in 1..Len(a) : a[i] # 0})}})

\* the digits i and above of a, read as a number, modulo k
RECURSIVE BRemSmall(_, _, _)
BRemSmall(a, k, i) ==
  IF i > Len(a) THEN 0 ELSE (BRemSmall(a, k, i + 1) * Base + a[i]) % k

\* floor(x / k) for 0 < k < Base, by division digit after digit
BDivSmall(x, k) ==
  Only({BNorm([i \in 1..Len(a) |-> (BRemSmall(a, k, i + 1) * Base + a[i]) \div k]) :
        a \in {x}})

\* the longest dividend divided digit after digit
ShortLimbs == 16

\* <<floor(x / y), x mod y>> for y > 0; a divisor k * 2^t with k < Base
\* divides floor(x / 2^t) digit after digit
BDivMod(x, y) ==
  Only({IF BCmp(a, b) < 0 THEN <<<<>>, a>>
        ELSE Only({IF Len(a) <= ShortLimbs /\ BBits(b) - t <= BaseBits
                   THEN Only({<<q, BSub(a, BShl(BMulSmall(q, BShr(b, t)[1]), t))>> :
                              q \in {BDivSmall(BShr(a, t), BShr(b, t)[1])}})
                   ELSE BDivFrom(a, b, low - 1, 0, <<<<>>, BShr(a, low)>>) :
                   low \in {BBits(a) - BBits(b) + 1}, t \in {BTrailing(b)}}) :
        a \in {x}, b \in {y}})

\* a * (digits lo..hi of b, in their places)
RECURSIVE BMulFrom(_, _, _, _)
BMulFrom(a, b, lo, hi) ==
  IF lo = hi THEN [i \in 1..(lo - 1) |-> 0] \o BMulSmall(a, b[lo])
  ELSE BAdd(BNorm(BMulFrom(a, b, lo, (lo + hi) \div 2)),
            BNorm(BMulFrom(a, b, ((lo + hi) \div 2) + 1, hi)))

\* x * y
BMul(x, y) ==
  Only({IF a = <<>> \/ b = <<>> THEN <<>> ELSE BNorm(BMulFrom(a, b, 1, Len(b))) :
        a \in {x}, b \in {y}})

\* 10^k
RECURSIVE BPow10(_)
BPow10(k) ==
  IF k = 0 THEN <<1>>
  ELSE Only({IF k % 2 = 1 THEN BMulSmall(BMul(h, h), 10) ELSE BMul(h, h) :
             h \in {BPow10(k \div 2)}})

(***************************************************************************)
(* Numbers: IEEE 754 binary64.  A finite number is (-1)^neg * m * 2^e with *)
(* m odd, or m zero and e zero.                                            *)
(***************************************************************************)
NaN == [nan |-> TRUE, inf |-> FALSE, neg |-> FALSE, m |-> <<>>, e |-> 0]

Infinity(neg) == [nan |-> FALSE, inf |-> TRUE, neg |-> neg, m |-> <<>>, e |-> 0]

Zero(neg) == [nan |-> FALSE, inf |-> FALSE, neg |-> neg, m |-> <<>>, e |-> 0]

\* (-1)^neg * x * 2^e, x of at most 53 binary digits, in its unique form
Finite(neg, x, e) ==
  Only({IF m = <<>> THEN Zero(neg)
        ELSE IF BBits(m) + e > 1024 THEN Infinity(neg)
        ELSE Only({[nan |-> FALSE, inf |-> FALSE, neg |-> neg,
                    m |-> BShr(m, t), e |-> e + t] :
                   t \in {BTrailing(m)}}) :
        m \in {x}})

\* q + 1 when the remainder r of the division by d is more than half of d,
\* or exactly half of it and q is odd
RoundHalfEven(q, r, d) ==
  Only({IF c > 0 \/ (c = 0 /\ BBit(q, 0) = 1) THEN BAdd(q, <<1>>) ELSE q :
        c \in {BCmp(BMulSmall(r, 2), d)}})

\* the number nearest to n / d * 2^e, rounded at the binary digit of weight
\* 2^e
RoundAt(neg, n, d, e) ==
  Only({Only({Finite(neg, RoundHalfEven(qr[1], qr[2], by), e) :
              qr \in {BDivMod(IF e >= 0 THEN n ELSE BShl(n, -e), by)}}) :
        by \in {IF e >= 0 THEN BShl(d, e) ELSE d}})

\* does n / (d * 2^e) reach 2^53
Reaches53(n, d, e) ==
  IF e >= 0 THEN BCmp(n, BShl(d, e + 53)) >= 0
  ELSE BCmp(BShl(n, -e), BShl(d, 53)) >= 0

\* the number nearest to (-1)^neg * x / y, ties to even
RoundRatio(neg, x, y) ==
  Only({IF n = <<>> THEN Zero(neg)
        ELSE Only({RoundAt(neg, n, d, IF e1 < -1074 THEN -1074 ELSE e1) :
                   e1 \in {IF Reaches53(n, d, BBits(n) - BBits(d) - 53)
                           THEN BBits(n) - BBits(d) - 52
                           ELSE BBits(n) - BBits(d) - 53}}) :
        n \in {x}, d \in {y}})

\* the number nearest to (-1)^neg * x * 2^e, ties to even
RoundScaled(neg, x, e) ==
  Only({IF BBits(n) <= 53 /\ e >= -1074 THEN Finite(neg, n, e)
        ELSE Only({Finite(neg, RoundHalfEven(q, BSub(n, BShl(q, drop)),
                                             BShl(<<1>>, drop)), e + drop) :
                   drop \in {IF BBits(n) - 53 > -1074 - e
                             THEN BBits(n) - 53 ELSE -1074 - e},
                   q \in {BShr(n, IF BBits(n) - 53 > -1074 - e
                                  THEN BBits(n) - 53 ELSE -1074 - e)}}) :
        n \in {x}})

\* the integer n
Num(n) == RoundScaled(n < 0, BOfInt(IF n < 0 THEN -n ELSE n), 0)

MathAbs(x) == IF x.nan THEN NaN ELSE [x EXCEPT !.neg = FALSE]

Negate(x) == IF x.nan THEN NaN ELSE [x EXCEPT !.neg = ~x.neg]

IsZero(x) == ~x.nan /\ ~x.inf /\ x.m = <<>>

\* x > 0
Positive(x) == ~x.nan /\ ~x.neg /\ ~IsZero(x)

\* x < 0
Negative(x) == ~x.nan /\ x.neg /\ ~IsZero(x)

\* JavaScript truthiness of a number: 0, -0 and NaN are falsy
TruthyNum(x) == ~x.nan /\ ~IsZero(x)

\* the lower of two integers
Lower(i, j) == IF i < j THEN i ELSE j

\* -1, 0, 1 as |x| < |y|, |x| = |y|, |x| > |y| for finite x and y
CmpMagnitude(x, y) ==
  BCmp(BShl(x.m, x.e - Lower(x.e, y.e)), BShl(y.m, y.e - Lower(x.e, y.e)))

\* x < y
LessThan(x, y) ==
  /\ ~x.nan /\ ~y.nan
  /\ IF x.inf \/ y.inf
     THEN IF x.inf /\ y.inf THEN x.neg /\ ~y.neg
          ELSE IF x.inf THEN x.neg ELSE ~y.neg
     ELSE IF IsZero(x) /\ IsZero(y) THEN FALSE
     ELSE IF Negative(x) /\ ~Negative(y) THEN TRUE
     ELSE IF ~Negative(x) /\ Negative(y) THEN FALSE
     ELSE IF Negative(x) THEN CmpMagnitude(x, y) > 0
     ELSE CmpMagnitude(x, y) < 0

\* the sum of two finite numbers; equal and opposite ones give +0
PlusFinite(x, y) ==
  Only({IF x.neg = y.neg THEN RoundScaled(x.neg, BAdd(a, b), Lower(x.e, y.e))
        ELSE IF c = 0 THEN Zero(FALSE)
        ELSE IF c > 0 THEN RoundScaled(x.neg, BSub(a, b), Lower(x.e, y.e))
        ELSE RoundScaled(y.neg, BSub(b, a), Lower(x.e, y.e)) :
        a \in {BShl(x.m, x.e - Lower(x.e, y.e))},
        b \in {BShl(y.m, y.e - Lower(x.e, y.e))},
        c \in {CmpMagnitude(x, y)}})

\* x + y
Plus(p, q) ==
  Only({IF x.nan \/ y.nan THEN NaN
        ELSE IF x.inf /\ y.inf THEN IF x.neg = y.neg THEN x ELSE NaN
        ELSE IF x.inf THEN x
        ELSE IF y.inf THEN y
        ELSE IF IsZero(y) THEN IF IsZero(x) THEN Zero(x.neg /\ y.neg) ELSE x
        ELSE IF IsZero(x) THEN y
        ELSE PlusFinite(x, y) :
        x \in {p}, y \in {q}})

\* x - y
Minus(x, y) == Plus(x, Negate(y))

\* x / y
Divide(p, q) ==
  Only({IF x.nan \/ y.nan THEN NaN
        ELSE IF x.inf THEN IF y.inf THEN NaN ELSE Infinity(x.neg # y.neg)
        ELSE IF y.inf THEN Zero(x.neg # y.neg)
        ELSE IF IsZero(y) THEN IF IsZero(x) THEN NaN ELSE Infinity(x.neg # y.neg)
        ELSE IF x.e >= y.e
        THEN RoundRatio(x.neg # y.neg, BShl(x.m, x.e - y.e), y.m)
        ELSE RoundRatio(x.neg # y.neg, x.m, BShl(y.m, y.e - x.e)) :
        x \in {p}, y \in {q}})


(***************************************************************************)
(* Number(s): the StringNumericLiteral grammar of ECMAScript               *)
(***************************************************************************)
HexDigits == "0123456789abcdef"

\* the value of the digit c in a radix up to 16, -1 when c is no digit of it
DigitOf(c, radix) ==
  Only({IF d >= 0 /\ d < radix THEN d ELSE -1 :
        d \in {IF IndexOf(HexDigits, c) > 0 THEN IndexOf(HexDigits, c) - 1
               ELSE IndexOf("0123456789ABCDEF", c) - 1}})

\* is s one or more digits of the radix
IsDigitsOf(s, radix) ==
  s # "" /\ \A i \in 1..Len(s) : DigitOf(CharAt(s, i), radix) >= 0

IsDigits(s) == IsDigitsOf(s, 10)

\* radix^k for the radixes 2, 8, 10 and 16
RadixPower(radix, k) ==
  IF radix = 10 THEN BPow10(k)
  ELSE BShl(<<1>>, k * (IF radix = 16 THEN 4 ELSE IF radix = 8 THEN 3 ELSE 1))

\* the natural number written by the digits lo..hi of s in the radix
RECURSIVE RadixValue(_, _, _, _)
RadixValue(s, radix, lo, hi) ==
  IF hi < lo THEN <<>>
  ELSE IF hi = lo THEN BOfInt(DigitOf(CharAt(s, lo), radix))
  ELSE Only({BAdd(BMul(RadixValue(s, radix, lo, mid), RadixPower(radix, hi - mid)),
                  RadixValue(s, radix, mid + 1, hi)) :
             mid \in {(lo + hi) \div 2}})

DigitsValue(s) == RadixValue(s, 10, 1, Len(s))


\* the position of the first character of s that is in the set C, 0 when
\* there is none
FirstOf(s, C) ==
  IF \E i \in 1..Len(s) : CharAt(s, i) \in C
  THEN MinOf({i \in 1..Len(s) : CharAt(s, i) \in C})
  ELSE 0

\* s without the zeros at its start
WithoutLeadingZeros(s) ==
  Only({IF first = 0 THEN "" ELSE SubSeq(s, first, Len(s)) :
        first \in {FirstOf(s, {CharAt(Digits, d) : d \in 2..10})}})

\* past this many digits an exponent is out of the range of every number
ExponentDigits == 6

\* the exponent written by the digits s, held at 10^ExponentDigits
ExponentValue(s) ==
  Only({IF Len(d) > ExponentDigits THEN 1000000
        ELSE LET val[i \in 0..Len(d)] ==
                   IF i = 0 THEN 0
                   ELSE 10 * val[i - 1] + DigitOf(CharAt(d, i), 10)
             IN val[Len(d)] :
        d \in {WithoutLeadingZeros(s)}})

\* the parts of an unsigned decimal literal: the digits before and after the
\* point, the exponent, and whether the literal is well formed
DecimalParts(body) ==
  Only({Only({[int |-> IF dot = 0 THEN mant ELSE SubSeq(mant, 1, dot - 1),
               frac |-> IF dot = 0 THEN "" ELSE SubSeq(mant, dot + 1, Len(mant)),
               hasExp |-> ePos > 0,
               expNeg |-> expo # "" /\ CharAt(expo, 1) = "-",
               expDigits |-> IF expo # "" /\ CharAt(expo, 1) \in {"+", "-"}
                             THEN SubSeq(expo, 2, Len(expo)) ELSE expo] :
              dot \in {FirstOf(mant, {"."})}}) :
        ePos \in {FirstOf(body, {"e", "E"})},
        mant \in {IF FirstOf(body, {"e", "E"}) = 0 THEN body
                  ELSE SubSeq(body, 1, FirstOf(body, {"e", "E"}) - 1)},
        expo \in {IF FirstOf(body, {"e", "E"}) = 0 THEN ""
                  ELSE SubSeq(body, FirstOf(body, {"e", "E"}) + 1, Len(body))}})

WellFormed(p) ==
  /\ p.int = "" \/ IsDigits(p.int)
  /\ p.frac = "" \/ IsDigits(p.frac)
  /\ p.int \o p.frac # ""
  /\ p.hasExp => IsDigits(p.expDigits)

\* the number nearest to (-1)^neg * (the digits d) * 10^x
Scaled(neg, d, x) ==
  IF d = "" THEN Zero(neg)
  ELSE IF Len(d) + x > 310 THEN Infinity(neg)
  ELSE IF Len(d) + x < -330 THEN Zero(neg)
  ELSE IF x >= 0 THEN RoundScaled(neg, BMul(DigitsValue(d), BPow10(x)), 0)
  ELSE RoundRatio(neg, DigitsValue(d), BPow10(-x))

\* the number written by an unsigned decimal literal, negated when neg
DecimalOf(neg, body) ==
  Only({IF ~WellFormed(p) THEN NaN
        ELSE Scaled(neg, WithoutLeadingZeros(p.int \o p.frac),
                    (IF ~p.hasExp THEN 0
                     ELSE IF p.expNeg THEN -ExponentValue(p.expDigits)
                     ELSE ExponentValue(p.expDigits)) - Len(p.frac)) :
        p \in {DecimalParts(body)}})

\* the number written by the digits s of a radix that is a power of two
RadixOf(s, radix) ==
  IF IsDigitsOf(s, radix) THEN RoundScaled(FALSE, RadixValue(s, radix, 1, Len(s)), 0)
  ELSE NaN

\* Number(s) for a string s
NumberOf(s) ==
  Only({IF t = "" THEN Zero(FALSE)
        ELSE IF Len(t) > 2 /\ SubSeq(t, 1, 2) \in {"0x", "0X"}
        THEN RadixOf(SubSeq(t, 3, Len(t)), 16)
        ELSE IF Len(t) > 2 /\ SubSeq(t, 1, 2) \in {"0o", "0O"}
        THEN RadixOf(SubSeq(t, 3, Len(t)), 8)
        ELSE IF Len(t) > 2 /\ SubSeq(t, 1, 2) \in {"0b", "0B"}
        THEN RadixOf(SubSeq(t, 3, Len(t)), 2)
        ELSE Only({IF body = "Infinity" THEN Infinity(CharAt(t, 1) = "-")
                   ELSE DecimalOf(CharAt(t, 1) = "-", body) :
                   body \in {IF CharAt(t, 1) \in {"+", "-"}
                             THEN SubSeq(t, 2, Len(t)) ELSE t}}) :
        t \in {trim(s)}})


(***************************************************************************)
(* String(x) of a number: Number::toString of ECMAScript, the shortest     *)
(* digits that read back as x                                              *)
(***************************************************************************)
\* the binary place of the last digit of the 53 that hold finite x # 0
LastPlace(x) ==
  IF BBits(x.m) + x.e - 53 < -1074 THEN -1074 ELSE BBits(x.m) + x.e - 53

\* is the number below x nearer to x than the number above it: x is a power
\* of two above the smallest ones
NarrowBelow(x) == x.m = <<1>> /\ LastPlace(x) > -1074

\* are the 53 binary digits of x an even integer, so that the decimals half
\* way to the numbers next to x read back as x
EvenDigits(x) == x.e > LastPlace(x)

\* |x| = r / s, and |x| + up / s and |x| - down / s are half way to the
\* numbers next to x
Interval(x) ==
  Only({IF b >= 0
        THEN [r |-> BShl(x.m, x.e), s |-> <<1>>, up |-> BShl(<<1>>, b + 1),
              down |-> BShl(<<1>>, IF NarrowBelow(x) THEN b ELSE b + 1)]
        ELSE [r |-> BShl(x.m, x.e - b), s |-> BShl(<<1>>, -b), up |-> <<2>>,
              down |-> IF NarrowBelow(x) THEN <<1>> ELSE <<2>>] :
        b \in {LastPlace(x) - 2}})

\* is every decimal that reads back as x below 10^k
Below(v, even, k) ==
  Only({IF even THEN BCmp(high, bound) < 0 ELSE BCmp(high, bound) <= 0 :
        high \in {IF k >= 0 THEN BAdd(v.r, v.up) ELSE BMul(BAdd(v.r, v.up), BPow10(-k))},
        bound \in {IF k >= 0 THEN BMul(v.s, BPow10(k)) ELSE v.s}})

\* the least k with every decimal that reads back as x below 10^k, found
\* around the estimate that the number of binary digits gives
DecimalPoint(x, v) ==
  Only({MinOf({k \in (g - 1)..(g + 2) : Below(v, EvenDigits(x), k)}) :
        g \in {((BBits(x.m) + x.e) * 30103) \div 100000}})

\* the interval divided by 10^k
Scale(v, k) ==
  IF k >= 0 THEN [v EXCEPT !.s = BMul(v.s, BPow10(k))]
  ELSE Only({[v EXCEPT !.r = BMul(v.r, p), !.up = BMul(v.up, p),
                       !.down = BMul(v.down, p)] :
             p \in {BPow10(-k)}})

\* floor(a / b) when it is below 10
SmallQuotient(a, b) == Cardinality({j \in 1..9 : BCmp(a, BMulSmall(b, j)) >= 0})

\* the digits after the decimal point of the shortest decimal that reads
\* back as x, the nearest to x of that length, from the scaled interval v
RECURSIVE ShortestDigits(_, _)
ShortestDigits(v, even) ==
  Only({Only({Only({IF ~low /\ ~high
                    THEN CharAt(Digits, d + 1) \o
                         ShortestDigits([v EXCEPT !.r = r, !.up = BMulSmall(v.up, 10),
                                                  !.down = BMulSmall(v.down, 10)], even)
                    ELSE IF low /\ ~high THEN CharAt(Digits, d + 1)
                    ELSE IF high /\ ~low THEN CharAt(Digits, d + 2)
                    ELSE IF BCmp(BMulSmall(r, 2), v.s) < 0 THEN CharAt(Digits, d + 1)
                    ELSE CharAt(Digits, d + 2) :
                    low \in {IF even THEN BCmp(r, BMulSmall(v.down, 10)) <= 0
                             ELSE BCmp(r, BMulSmall(v.down, 10)) < 0},
                    high \in {IF even THEN BCmp(BAdd(r, BMulSmall(v.up, 10)), v.s) >= 0
                              ELSE BCmp(BAdd(r, BMulSmall(v.up, 10)), v.s) > 0}}) :
              r \in {BSub(BMulSmall(v.r, 10), BMulSmall(v.s, d))}}) :
        d \in {SmallQuotient(BMulSmall(v.r, 10), v.s)}})

\* [digits, n]: the fewest digits that read back as |x|, and the place of
\* the decimal point after digit n of them
Shortest(x) ==
  Only({Only({[digits |-> ShortestDigits(Scale(v, k), EvenDigits(x)), n |-> k] :
              k \in {DecimalPoint(x, v)}}) :
        v \in {Interval(x)}})

\* the decimal digits of a small natural number
RECURSIVE NatString(_)
NatString(n) ==
  IF n < 10 THEN CharAt(Digits, n + 1)
  ELSE NatString(n \div 10) \o CharAt(Digits, (n % 10) + 1)

RECURSIVE Zeros(_)
Zeros(k) == IF k = 0 THEN "" ELSE "0" \o Zeros(k - 1)

\* the digits d with the decimal point after digit n, as Number::toString
\* lays them out
LayOut(d, n) ==
  IF Len(d) <= n /\ n <= 21 THEN d \o Zeros(n - Len(d))
  ELSE IF 0 < n /\ n <= 21 THEN SubSeq(d, 1, n) \o "." \o SubSeq(d, n + 1, Len(d))
  ELSE IF -6 < n /\ n <= 0 THEN "0." \o Zeros(-n) \o d
  ELSE (IF Len(d) = 1 THEN d ELSE SubSeq(d, 1, 1) \o "." \o SubSeq(d, 2, Len(d)))
       \o "e" \o (IF n - 1 < 0 THEN "-" \o NatString(1 - n) ELSE "+" \o NatString(n - 1))

\* String(x) for a number x
NumberToString(x) ==
  IF x.nan THEN "NaN"
  ELSE IF IsZero(x) THEN "0"
  ELSE IF x.inf THEN IF x.neg THEN "-Infinity" ELSE "Infinity"
  ELSE Only({(IF x.neg THEN "-" ELSE "") \o LayOut(s.digits, s.n) :
             s \in {Shortest(x)}})

(***************************************************************************)
(* Helpers of the server                                                   *)
(***************************************************************************)
categorizeGasFirst(name, amount) ==
  LET n == toLowerCase(name)
  IN IF trim(name) = "" THEN "Uncategorized"
     ELSE IF Positive(amount) THEN "Income"
     ELSE IF includes(n, "gas") \/ includes(n, "shell") \/ includes(n, "exxon")
             \/ includes(n, "bp") THEN "Gas"
     ELSE IF includes(n, "rent") THEN "Housing"
     ELSE IF includes(n, "grocery") \/ includes(n, "supermarket")
             \/ includes(n, "trader") \/ includes(n, "whole foods") THEN "Groceries"
     ELSE IF includes(n, "uber") \/ includes(n, "lyft") \/ includes(n, "taxi")
       THEN "Transport"
     ELSE IF includes(n, "netflix") \/ includes(n, "spotify") \/ includes(n, "hulu")
             \/ includes(n, "disney") THEN "Subscriptions"
     ELSE IF includes(n, "electric") \/ includes(n, "utility") \/ includes(n, "water")
             \/ includes(n, "coned") \/ includes(n, "pseg") THEN "Utilities"
     ELSE IF includes(n, "internet") \/ includes(n, "verizon")
             \/ includes(n, "optimum") \/ includes(n, "comcast") THEN "Internet"
     ELSE IF includes(n, "coffee") \/ includes(n, "starbucks") \/ includes(n, "dunkin")
       THEN "Coffee"
     ELSE IF includes(n, "chipotle") \/ includes(n, "mcdonald")
             \/ includes(n, "restaurant") \/ includes(n, "pizza") THEN "Dining"
     ELSE "Uncategorized"

categorize(name, amount) ==
  LET n == toLowerCase(name)
  IN IF trim(name) = "" THEN "Uncategorized"
     ELSE IF Positive(amount) THEN "Income"
     ELSE IF includes(n, "rent") THEN "Housing"
     ELSE IF includes(n, "grocery") \/ includes(n, "supermarket")
             \/ includes(n, "trader") \/ includes(n, "whole foods") THEN "Groceries"
     ELSE IF includes(n, "gas") \/ includes(n, "shell") \/ includes(n, "exxon")
             \/ includes(n, "bp") THEN "Gas"
     ELSE IF includes(n, "uber") \/ includes(n, "lyft") \/ includes(n, "taxi")
       THEN "Transport"
     ELSE IF includes(n, "netflix") \/ includes(n, "spotify") \/ includes(n, "hulu")
             \/ includes(n, "disney") THEN "Subscriptions"
     ELSE IF includes(n, "electric") \/ includes(n, "utility") \/ includes(n, "water")
             \/ includes(n, "coned") \/ includes(n, "pseg") THEN "Utilities"
     ELSE IF includes(n, "internet") \/ includes(n, "verizon")
             \/ includes(n, "optimum") \/ includes(n, "comcast") THEN "Internet"
     ELSE IF includes(n, "coffee") \/ includes(n, "starbucks") \/ includes(n, "dunkin")
       THEN "Coffee"
     ELSE IF includes(n, "chipotle") \/ includes(n, "mcdonald")
             \/ includes(n, "restaurant") \/ includes(n, "pizza") THEN "Dining"
     ELSE "Uncategorized"

normalizeAmount(raw) ==
  LET s == trim(raw)
      neg == startsWith(s, "(") /\ endsWith(s, ")")
      cleaned == stripMoney(s)
      n == NumberOf(cleaned)
  IN IF neg THEN Negate(n) ELSE n

(***************************************************************************)
(* csv-parse, called with { columns: true, skip_empty_lines: true,         *)
(* trim: true }.  An uploaded document is a header line and text lines; a  *)
(* line is a sequence of cells and a cell is its text and whether it was   *)
(* written between quotes.  A line whose number of cells differs from the  *)
(* header's is the structural error of the model.                          *)
(***************************************************************************)
U(s) == [quoted |-> FALSE, text |-> s]

Q(s) == [quoted |-> TRUE, text |-> s]

\* the characters csv-parse leaves out at the start of an unquoted cell:
\* space, tab, line feed, carriage return, form feed, and not the vertical
\* tab
IsTrimable(c) == c \in {" ", "\t", "\n", "\r", "\f"}

\* an unquoted cell under trim: true: the text from its first character that
\* is not one of those, and then field.trimRight(), which removes the white
\* space of String.prototype.trim at the end
cellTrim(str) ==
  Only({IF kept = {} \/ InkAt(str) = {} THEN ""
        ELSE SubSeq(str, MinOf(kept), MaxOf(InkAt(str))) :
        kept \in {{i \in 1..Len(str) : ~IsTrimable(CharAt(str, i))}}})

\* trim: true removes the whitespace around the delimiters, not inside quotes
cellValue(c) == IF c.quoted THEN c.text ELSE cellTrim(c.text)

ColumnIndex(header, k) == CHOOSE i \in 1..Len(header) : header[i] = k

Columns(header) == {header[i] : i \in 1..Len(header)}

\* skip_empty_lines: true
nonEmptyLines(lines) == SelectSeq(lines, LAMBDA l : l # <<>>)

\* columns: true turns every line into an object keyed by the header's names
toRow(header, line) ==
  [k \in Columns(header) |-> cellValue(line[ColumnIndex(header, k)])]

parseKeepsShortLines(doc) ==
  LET kept == nonEmptyLines(doc.lines)
  IN [err |-> FALSE,
      rows |-> [i \in 1..Len(SelectSeq(kept, LAMBDA l : Len(l) = Len(doc.header)))
                  |-> toRow(doc.header,
                            SelectSeq(kept, LAMBDA l : Len(l) = Len(doc.header))[i])]]

parse(doc) ==
  LET kept == nonEmptyLines(doc.lines)
  IN IF \E i \in 1..Len(kept) : Len(kept[i]) # Len(doc.header)
     THEN [err |-> TRUE, rows |-> <<>>]
     ELSE [err |-> FALSE,
           rows |-> [i \in 1..Len(kept) |-> toRow(doc.header, kept[i])]]

\* r[k] of a parsed row: undefined when the document has no such column
Get(r, k) == IF k \in DOMAIN r THEN Str(r[k]) ELSE Undefined

(***************************************************************************)
(* POST /transactions/import/csv: the body of the loop over the rows       *)
(***************************************************************************)
rowDate(r) ==
  OrElse(OrElse(OrElse(OrElse(Get(r, "date"), Get(r, "Date")),
                       Get(r, "TransactionDate")),
                Get(r, "Transaction Date")),
         Get(r, "Trans. Date"))

rowRawName(r) ==
  OrElse(OrElse(OrElse(OrElse(Get(r, "name"), Get(r, "Description")),
                       Get(r, "Name")),
                Get(r, "Merchant")),
         Get(r, "Merchant Name"))

rowAmountRaw(r) ==
  OrElse(OrElse(OrElse(OrElse(Get(r, "amount"), Get(r, "Amount")),
                       Get(r, "Transaction Amount")),
                Get(r, "Amount (USD)")),
         Get(r, "Amount"))

rowBankCategory(r) == OrElse(Get(r, "Category"), Get(r, "Category"))

rowSkippedOnlyWithoutDate(r) == ~Truthy(rowDate(r))

\* if (!date || amountRaw === undefined) continue;
rowSkipped(r) == ~Truthy(rowDate(r)) \/ rowAmountRaw(r) = Undefined

rowCleanName(r) == trim(StringOrEmpty(rowRawName(r)))

rowAmountNum(r) == normalizeAmount(StringOf(rowAmountRaw(r)))

CreditWords == {"payment", "credit", "refund", "returned", "return"}

\* /payment|credit|refund|returned|return/i.test(s)
creditTest(lowered) == \E w \in CreditWords : includes(lowered, w)

looksLikeCredit(r) ==
  \/ creditTest(toLowerCase(rowCleanName(r)))
  \/ includes(toLowerCase(StringOrEmpty(rowBankCategory(r))), "payment")
  \/ includes(toLowerCase(StringOrEmpty(rowBankCategory(r))), "credit")

signedAmountKeepsSign(r) ==
  IF looksLikeCredit(r) THEN MathAbs(rowAmountNum(r)) ELSE Negate(rowAmountNum(r))

signedAmount(r) ==
  IF looksLikeCredit(r) THEN MathAbs(rowAmountNum(r))
  ELSE Negate(MathAbs(rowAmountNum(r)))

rowCategoryNullish(r) ==
  IF rowBankCategory(r) # Undefined THEN trim(StringOf(rowBankCategory(r)))
  ELSE IF rowCleanName(r) # "" THEN categorize(rowCleanName(r), signedAmount(r))
  ELSE "Uncategorized"

rowCategoryHeuristicFirst(r) ==
  LET cleanBankCategory == trim(StringOrEmpty(rowBankCategory(r)))
  IN IF rowCleanName(r) # "" THEN categorize(rowCleanName(r), signedAmount(r))
     ELSE IF cleanBankCategory # "" THEN cleanBankCategory
     ELSE "Uncategorized"

rowCategory(r) ==
  LET cleanBankCategory == trim(StringOrEmpty(rowBankCategory(r)))
  IN IF cleanBankCategory # "" THEN cleanBankCategory
     ELSE IF rowCleanName(r) # "" THEN categorize(rowCleanName(r), signedAmount(r))
     ELSE "Uncategorized"

\* crypto.randomUUID(): the n-th identifier drawn is written n; the generator
\* is taken never to return a value it returned before
randomUUID(n) == n

rowTx(r, n) ==
  [id |-> randomUUID(n),
   date |-> slice10(StringOf(rowDate(r))),
   name |-> IF rowCleanName(r) # "" THEN rowCleanName(r) ELSE "(No description)",
   amount |-> signedAmount(r),
   category |-> rowCategory(r)]

(***************************************************************************)
(* POST /transactions                                                      *)
(***************************************************************************)
\* Number(amount) of a JSON body field: a number, a string or absent
numberOfField(a) ==
  IF a.t = "number" THEN Num(a.v)
  ELSE IF a.t = "string" THEN NumberOf(a.s)
  ELSE NaN

manualTxInfersSign(body, n) ==
  LET cleanName == trim(StringOrEmpty(body.name))
      amountNum == numberOfField(body.amount)
      signed == IF creditTest(toLowerCase(cleanName)) THEN MathAbs(amountNum)
                ELSE Negate(MathAbs(amountNum))
  IN [id |-> randomUUID(n),
      date |-> slice10(StringOf(body.date)),
      name |-> IF cleanName # "" THEN cleanName ELSE "(No description)",
      amount |-> signed,
      category |-> IF cleanName # "" THEN categorize(cleanName, signed)
                   ELSE "Uncategorized"]

manualTx(body, n) ==
  LET cleanName == trim(StringOrEmpty(body.name))
      amountNum == numberOfField(body.amount)
  IN [id |-> randomUUID(n),
      date |-> slice10(StringOf(body.date)),
      name |-> IF cleanName # "" THEN cleanName ELSE "(No description)",
      amount |-> amountNum,
      category |-> IF cleanName # "" THEN categorize(cleanName, amountNum)
                   ELSE "Uncategorized"]

(***************************************************************************)
(* Requests                                                                *)
(***************************************************************************)
SeqsUpTo(S, n) == UNION {[1..k -> S] : k \in 0..n}

GenericHeader == <<"date", "name", "amount">>

DiscoverHeader == <<"Trans. Date", "Description", "Amount", "Category">>

\* a row that is kept, with an amount that is no binary fraction; a line
\* one cell short
GenericLines ==
  { <<U("2024-01-05"), U("Whole Foods Market"), U("54.23")>>,
    <<U("2024-01-07"), U("Rent")>> }

\* a row with neither date nor amount, a row with only a date, a row with
\* only an amount
PartialLines ==
  { <<U(""), U("Rent"), U("")>>,
    <<U("2024-01-05"), U("Rent"), U("")>>,
    <<U(""), U("Rent"), U("12")>> }

\* a credit, a row whose Amount cell and Category cell are blank, a row
\* whose Category cell names a member of Object.prototype
DiscoverLines ==
  { <<U("2024-02-01"), U("PAYMENT THANK YOU"), U("(200)"), U("")>>,
    <<U("2024-02-02"), U(""), U(""), Q(" ")>>,
    <<U("2024-02-03"), U("Shell"), U("5"), U("constructor")>> }

DocumentsOf(header, lines, n) ==
  {[header |-> header, lines |-> l] : l \in SeqsUpTo(lines, n)}

\* the documents uploaded to the running server
Documents ==
  DocumentsOf(GenericHeader, GenericLines, MaxServerRows)
    \cup DocumentsOf(DiscoverHeader, DiscoverLines, MaxServerRows)

\* req.file: absent, or the uploaded document
Files == {Undefined} \cup {Str(d) : d \in Documents}

\* the JSON bodies posted to /transactions
Bodies ==
  { [date |-> Str("2024-03-01"), name |-> Undefined,
     amount |-> [t |-> "number", v |-> 1000]],
    [date |-> Str("2024-03-01"), name |-> Str("Refund coffee"),
     amount |-> [t |-> "string", s |-> "-950.1"]],
    [date |-> Undefined, name |-> Str(" "), amount |-> [t |-> "string", s |-> "abc"]] }

\* the JSON bodies of the specification about one manual entry
EntryBodies ==
  [date : {Str("2024-03-01"), Str("2024-03-01T10:00:00Z")},
   name : {Undefined, Str(""), Str(" \n" \o VerticalTab), Str("Refund coffee"),
           Str("PAYMENT THANK YOU"), Str("Netflix"), Str("\n Rent\r\n")},
   amount : {[t |-> "number", v |-> 1000], [t |-> "number", v |-> -950],
             [t |-> "number", v |-> 0], [t |-> "string", s |-> "12"],
             [t |-> "string", s |-> "-12.5"], [t |-> "string", s |-> VerticalTab \o "7\f\n"],
             [t |-> "string", s |-> "54.23"], [t |-> "string", s |-> "1e3"],
             [t |-> "string", s |-> "0x10"], [t |-> "string", s |-> "-Infinity"],
             [t |-> "string", s |-> "-0"], [t |-> "string", s |-> ""],
             [t |-> "string", s |-> "abc"], [t |-> "string", s |-> "1,5"]}]

\* the documents of the specifications about one upload
UploadDocuments ==
  DocumentsOf(GenericHeader, GenericLines \cup PartialLines, MaxRows)
    \cup DocumentsOf(DiscoverHeader, DiscoverLines, MaxRows)

OneLine(header, cells) == [header |-> header, lines |-> <<cells>>]

\* one-line documents for the properties of a single row
RowDocuments ==
  {OneLine(GenericHeader, <<d, n, a>>) :
     d \in {U("2024-01-05"), U("2024-02-01T09:30:00"), U("")},
     n \in {U("Whole Foods Market"), U("PAYMENT THANK YOU"), U("Returned item"),
            U("Shell Gas"), U(""), Q("  ")},
     a \in {U("54"), U("(54.23)"), U("-54"), Q("$1,234.50"), U("abc"), U("0"),
            U("1e3"), U("")}}
    \cup
  {OneLine(DiscoverHeader, <<U("01/05/2024"), n, a, c>>) :
     n \in {U("UBER TRIP"), U("Refund Starbucks"), U(""), U(VerticalTab \o "Rent")},
     a \in {U("12"), U("(12.5)"), U(""), U("5" \o VerticalTab)},
     c \in {U(""), Q("  "), U("Payments and Credits"), Q(" Dining "), U("Gas"),
            U(VerticalTab)}}
    \cup
  {OneLine(<<"Date", "Merchant Name", "Amount (USD)">>, <<U("2024-02-01"), n, a>>) :
     n \in {U("PAYMENT THANK YOU"), U("Netflix")}, a \in {U("200"), U("(15)")}}
    \cup
  {OneLine(<<"Transaction Date", "Merchant", "Transaction Amount", "Category">>,
           <<d, U("Comcast"), a, c>>) :
     d \in {U("2024-04-01"), U("")}, a \in {U("80"), U("")},
     c \in {U(""), U("CREDIT ADJ")}}

UploadFiles == {Undefined} \cup {Str(d) : d \in UploadDocuments \cup RowDocuments}

\* two rows that are kept, a row without date and amount
SampleLines ==
  { <<U("2024-01-05"), U("Whole Foods Market"), U("54")>>,
    <<U("2024-01-06"), U("Netflix"), U("15")>>,
    <<U(""), U("Rent"), U("")>> }

\* documents of up to MaxSampleRows lines, more than the sample holds
SampleDocuments ==
  {[header |-> GenericHeader, lines |-> l] : l \in SeqsUpTo(SampleLines, MaxSampleRows)}

SampleFiles == {Str(d) : d \in SampleDocuments}

AllDocuments == Documents \cup UploadDocuments \cup RowDocuments \cup SampleDocuments

(***************************************************************************)
(* Tables.  parse, the test that skips a row and the records built from a  *)
(* row or a body depend on the input alone, but for the identifier drawn,  *)
(* so each is evaluated once for every input of the model, with the        *)
(* identifier 0, and the handlers below put the identifier drawn in.  Each  *)
(* table is joined with the empty function, which leaves it as it is and   *)
(* has its values computed when the table is built, not at every look-up.  *)
(***************************************************************************)
NoEntries == [x \in {} |-> 0]

parsed == [d \in AllDocuments |-> parse(d)] @@ NoEntries

InputRows ==
  UNION {{parsed[d].rows[i] : i \in 1..Len(parsed[d].rows)} : d \in AllDocuments}

skipped == [r \in InputRows |-> rowSkipped(r)] @@ NoEntries

rowRecords == [r \in InputRows |-> rowTx(r, 0)] @@ NoEntries

manualRecords == [b \in Bodies \cup EntryBodies |-> manualTx(b, 0)] @@ NoEntries

\* the record built from the row r when the n-th identifier is drawn
builtRow(r, n) == [rowRecords[r] EXCEPT !.id = randomUUID(n)]

\* the record built from the body b when the n-th identifier is drawn
builtManual(b, n) == [manualRecords[b] EXCEPT !.id = randomUUID(n)]

importRowsStopAtSkip(rows, st) ==
  LET first == IF \E i \in 1..Len(rows) : skipped[rows[i]]
               THEN (CHOOSE i \in 1..Len(rows) :
                       skipped[rows[i]] /\ \A j \in 1..(i - 1) : ~skipped[rows[j]]) - 1
               ELSE Len(rows)
      txs == [i \in 1..first |-> builtRow(rows[i], st.issued + i)]
  IN [transactions |-> st.transactions \o txs,
      imported |-> st.imported \o txs,
      issued |-> st.issued + first]

importRowsUnshift(rows, st) ==
  LET kept == SelectSeq(rows, LAMBDA r : ~skipped[r])
      txs == [i \in 1..Len(kept) |-> builtRow(kept[i], st.issued + i)]
  IN [transactions |-> [i \in 1..Len(kept) |-> txs[Len(kept) + 1 - i]]
                         \o st.transactions,
      imported |-> st.imported \o txs,
      issued |-> st.issued + Len(kept)]

\* one identifier is drawn for an import, before its loop
importRowsOneId(rows, st) ==
  LET kept == SelectSeq(rows, LAMBDA r : ~skipped[r])
      txs == [i \in 1..Len(kept) |-> builtRow(kept[i], st.issued + 1)]
  IN [transactions |-> st.transactions \o txs,
      imported |-> st.imported \o txs,
      issued |-> st.issued + (IF kept = <<>> THEN 0 ELSE 1)]

\* the loop: st carries the store, the local array imported and the number
\* of identifiers drawn so far
RECURSIVE importRows(_, _)
importRows(rows, st) ==
  IF rows = <<>> THEN st
  ELSE IF skipped[Head(rows)] THEN importRows(Tail(rows), st)
  ELSE LET tx == builtRow(Head(rows), st.issued + 1)
       IN importRows(Tail(rows),
                     [transactions |-> Append(st.transactions, tx),
                      imported |-> Append(st.imported, tx),
                      issued |-> st.issued + 1])

SampleSize == 5

sliceSampleWhole(s) == s

sliceSample(s) == SubSeq(s, 1, IF Len(s) < SampleSize THEN Len(s) ELSE SampleSize)

\* res.json({ imported: imported.length, sample: imported.slice(0, 5) })
importDone(st) ==
  [transactions |-> st.transactions, issued |-> st.issued,
   res |-> [status |-> 200, route |-> "POST /transactions/import/csv",
            imported |-> Len(st.imported), sample |-> sliceSample(st.imported)]]

\* the answer to a request without a file
missingFile ==
  [status |-> 400, route |-> "POST /transactions/import/csv",
   error |-> "Missing file field 'file'"]

\* the callback that csv-parse calls with the outcome for the document doc:
\* the store, the identifiers drawn and the response
importCallback(doc, store, drawn) ==
  IF parsed[doc].err
  THEN [transactions |-> store, issued |-> drawn,
        res |-> [status |-> 400, route |-> "POST /transactions/import/csv",
                 error |-> "CSV parse error"]]
  ELSE importDone(importRows(parsed[doc].rows,
                             [transactions |-> store, imported |-> <<>>,
                              issued |-> drawn]))

(***************************************************************************)
(* GET /insights/totals, /insights/summary, /insights/advice               *)
(***************************************************************************)
categoryOf(t) == IF t.category # "" THEN t.category ELSE "Uncategorized"

\* a value held by byCategory: a number, or the string that + makes of a
\* value that is not a number
NumberValue(x) == [t |-> "number", v |-> x]

StringValue(s) == [t |-> "string", s |-> s]

\* the functions every object inherits from Object.prototype
PrototypeFunctions ==
  {"constructor", "hasOwnProperty", "isPrototypeOf", "propertyIsEnumerable",
   "toLocaleString", "toString", "valueOf", "__defineGetter__",
   "__defineSetter__", "__lookupGetter__", "__lookupSetter__"}

\* String(f) of the function inherited under the key k
FunctionText(k) ==
  "function " \o (IF k = "constructor" THEN "Object" ELSE k) \o "() { [native code] }"

\* (byCategory[cat] || 0) + spend: byCategory is a plain object, so a key it
\* does not hold itself is looked up in Object.prototype, and + joins the
\* text of what is found there, or of a string stored before, with the text
\* of spend
spendSum(byCategory, cat, spend) ==
  IF cat \in DOMAIN byCategory
  THEN IF byCategory[cat].t = "string"
       THEN StringValue(byCategory[cat].s \o NumberToString(spend))
       ELSE IF TruthyNum(byCategory[cat].v)
       THEN NumberValue(Plus(byCategory[cat].v, spend))
       ELSE NumberValue(Plus(Num(0), spend))
  ELSE IF cat \in PrototypeFunctions
  THEN StringValue(FunctionText(cat) \o NumberToString(spend))
  ELSE IF cat = "__proto__"
  THEN StringValue("[object Object]" \o NumberToString(spend))
  ELSE NumberValue(Plus(Num(0), spend))

\* byCategory[cat] = (byCategory[cat] || 0) + spend; the key __proto__ is
\* an accessor of Object.prototype, which drops a string, and no entry is
\* made
addSpend(byCategory, cat, spend) ==
  IF cat = "__proto__" THEN byCategory
  ELSE [k \in DOMAIN byCategory \cup {cat} |->
          IF k = cat THEN spendSum(byCategory, cat, spend) ELSE byCategory[k]]

EmptyObject == [k \in {} |-> NumberValue(Num(0))]

\* one turn of the loop over the store
totalsStep(acc, t) ==
  IF Positive(t.amount)
  THEN [acc EXCEPT !.income = Plus(@, t.amount)]
  ELSE [acc EXCEPT !.expenses = Plus(@, MathAbs(t.amount)),
                   !.byCategory = addSpend(@, categoryOf(t), MathAbs(t.amount))]

RECURSIVE totalsLoop(_, _)
totalsLoop(ts, acc) ==
  IF ts = <<>> THEN acc
  ELSE Only({totalsLoop(Tail(ts), next) : next \in {totalsStep(acc, Head(ts))}})

totals(ts) ==
  Only({[income |-> acc.income, expenses |-> acc.expenses,
         net |-> Minus(acc.income, acc.expenses), byCategory |-> acc.byCategory] :
        acc \in {totalsLoop(ts, [income |-> Num(0), expenses |-> Num(0),
                                 byCategory |-> EmptyObject])}})

\* savingsRate = income > 0 ? net / income : 0
savingsRateOf(income, net) ==
  IF Positive(income) THEN Divide(net, income) ELSE Num(0)

\* the literal 0.1
Tenth == RoundRatio(FALSE, <<1>>, <<10>>)

\* savingsRate < 0.1
belowTenth(rate) == LessThan(rate, Tenth)

summary(ts) ==
  Only({[income |-> t.income, expenses |-> t.expenses, net |-> t.net,
         savingsRate |-> savingsRateOf(t.income, t.net)] :
        t \in {totals(ts)}})

adviceFirstRuleOnly(ts) ==
  Only({IF Negative(s.net)
        THEN <<[title |-> "Spending exceeds income", severity |-> "urgent"]>>
        ELSE IF Positive(s.income) /\ belowTenth(s.savingsRate)
        THEN <<[title |-> "Low savings rate", severity |-> "warn"]>>
        ELSE <<[title |-> "You're on track", severity |-> "info"]>> :
        s \in {summary(ts)}})

\* the items pushed by the two tests, and the third when there is none
advice(ts) ==
  Only({IF items = <<>>
        THEN <<[title |-> "You're on track", severity |-> "info"]>>
        ELSE items :
        items \in {Only({(IF Negative(s.net)
                          THEN <<[title |-> "Spending exceeds income",
                                  severity |-> "urgent"]>>
                          ELSE <<>>) \o
                         (IF Positive(s.income) /\ belowTenth(s.savingsRate)
                          THEN <<[title |-> "Low savings rate", severity |-> "warn"]>>
                          ELSE <<>>) :
                         s \in {summary(ts)}})}})

(***************************************************************************)
(* The server: one action for every route                                  *)
(***************************************************************************)
NoRequest == [op |-> "none"]

\* res carries the route it answers beside the status and the JSON body
NoResponse == [status |-> 0, route |-> "none"]

Init ==
  /\ transactions = <<>>
  /\ issued = 0
  /\ res = NoResponse
  /\ pending = NoRequest
  /\ uploads = <<>>

PostTransaction ==
  \E body \in Bodies :
    /\ issued < MaxIds
    /\ \E tx \in {builtManual(body, issued + 1)} :
         /\ transactions' = Append(transactions, tx)
         /\ res' = [status |-> 200, route |-> "POST /transactions", body |-> tx]
    /\ issued' = issued + 1
    /\ UNCHANGED <<pending, uploads>>

PostResetKeepsNewest ==
  /\ transactions' = IF transactions = <<>> THEN <<>>
                     ELSE <<transactions[Len(transactions)]>>
  /\ res' = [status |-> 200, route |-> "POST /reset", ok |-> TRUE]
  /\ UNCHANGED <<issued, pending, uploads>>

PostReset ==
  /\ transactions' = <<>>
  /\ res' = [status |-> 200, route |-> "POST /reset", ok |-> TRUE]
  /\ UNCHANGED <<issued, pending, uploads>>

\* the handler of the route, as far as the call of csv-parse: a request
\* without a file is answered at once; a document is handed to csv-parse,
\* which calls back later, and nothing is answered yet
ArrivalStep(file) ==
  IF file = Undefined
  THEN /\ res' = missingFile
       /\ UNCHANGED <<transactions, issued, uploads>>
  ELSE /\ Len(uploads) < MaxInFlight
       /\ uploads' = Append(uploads, file[1])
       /\ UNCHANGED <<transactions, issued, res>>

\* the callback for the oldest document csv-parse holds: csv-parse defers
\* its work with setImmediate, which keeps the order of the calls; limit
\* bounds the identifiers drawn
CallbackStep(limit) ==
  /\ uploads # <<>>
  /\ \E out \in {importCallback(Head(uploads), transactions, issued)} :
       /\ out.issued <= limit
       /\ transactions' = out.transactions
       /\ issued' = out.issued
       /\ res' = out.res
  /\ uploads' = Tail(uploads)

PostImportCsv ==
  /\ \E file \in Files : ArrivalStep(file)
  /\ UNCHANGED pending

ImportCallback ==
  /\ CallbackStep(MaxIds)
  /\ UNCHANGED pending

GetTransactions ==
  /\ res' = [status |-> 200, route |-> "GET /transactions", body |-> transactions]
  /\ UNCHANGED <<transactions, issued, pending, uploads>>

GetTotals ==
  /\ res' = [status |-> 200, route |-> "GET /insights/totals", body |-> totals(transactions)]
  /\ UNCHANGED <<transactions, issued, pending, uploads>>

GetSummary ==
  /\ res' = [status |-> 200, route |-> "GET /insights/summary", body |-> summary(transactions)]
  /\ UNCHANGED <<transactions, issued, pending, uploads>>

GetAdvice ==
  /\ res' = [status |-> 200, route |-> "GET /insights/advice", body |-> advice(transactions)]
  /\ UNCHANGED <<transactions, issued, pending, uploads>>

Next ==
  \/ PostTransaction
  \/ PostReset
  \/ PostImportCsv
  \/ ImportCallback
  \/ GetTransactions
  \/ GetTotals
  \/ GetSummary
  \/ GetAdvice

Spec == Init /\ [][Next]_vars

(***************************************************************************)
(* The requests that change the store, with uploads of up to MaxRows lines *)
(***************************************************************************)
PostImportRows ==
  /\ \E d \in UploadDocuments : ArrivalStep(Str(d))
  /\ UNCHANGED pending

NextStore ==
  \/ PostTransaction
  \/ PostReset
  \/ PostImportRows
  \/ ImportCallback

SpecStore == Init /\ [][NextStore]_vars

(***************************************************************************)
(* One upload: a client holds a document and posts it to                   *)
(* /transactions/import/csv; manual entries may come before the request    *)
(* and between its arrival and the callback.                               *)
(***************************************************************************)
InitUpload ==
  /\ transactions = <<>>
  /\ issued = 0
  /\ res = NoResponse
  /\ pending \in {[op |-> "upload", file |-> f] : f \in UploadFiles}
  /\ uploads = <<>>

EntryBeforeUpload ==
  /\ pending.op \in {"upload", "accepted"}
  /\ PostTransaction

\* the state of the client's request after its arrival
Sent(request) ==
  [op |-> IF request.file = Undefined THEN "uploaded" ELSE "accepted",
   file |-> request.file]

SendUpload ==
  /\ pending.op = "upload"
  /\ ArrivalStep(pending.file)
  /\ pending' = Sent(pending)

AnswerUpload ==
  /\ pending.op = "accepted"
  /\ CallbackStep(MaxIds)
  /\ pending' = [op |-> "uploaded", file |-> pending.file]

NextUpload == EntryBeforeUpload \/ SendUpload \/ AnswerUpload

SpecUpload == InitUpload /\ [][NextUpload]_vars

(***************************************************************************)
(* One call of categorize                                                  *)
(***************************************************************************)
CategorizeNames ==
  { "Rent", "PARENT PORTAL", "Grocery Outlet", "Supermarket", "Trader Joe's",
    "Whole Foods Market", "Vegas Hotel", "Shell", "EXXON 42", "BP", "Uber",
    "lyft ride", "Taxi", "NETFLIX", "Spotify", "Hulu", "Disney Plus",
    "Electric Co", "Utility", "Water", "ConEd", "PSEG", "Internet", "Verizon",
    "Optimum", "Comcast", "Coffee", "Starbucks", "Dunkin", "Chipotle",
    "McDonald's", "Restaurant", "Pizza", "Shell Supermarket", "Rent a Taxi",
    "Water Restaurant", "Uber Eats Pizza", "Netflix Internet", "Coffee Pizza",
    "Gas Electric", "Bookshop", "x", " ", "", VerticalTab,
    VerticalTab \o "Rent" }

CategorizeAmounts == {Num(-5), Num(0), Num(5), NaN}

InitCategorize ==
  /\ transactions = <<>>
  /\ issued = 0
  /\ res = NoResponse
  /\ pending \in [op : {"categorize"}, name : CategorizeNames,
                  amount : CategorizeAmounts]
  /\ uploads = <<>>

Categorize ==
  /\ pending.op = "categorize"
  /\ res = NoResponse
  /\ res' = [status |-> 200, route |-> "categorize",
             category |-> categorize(pending.name, pending.amount)]
  /\ UNCHANGED <<transactions, issued, pending, uploads>>

NextCategorize == Categorize

SpecCategorize == InitCategorize /\ [][NextCategorize]_vars

(***************************************************************************)
(* One long upload: at most one manual entry, then a document of up to     *)
(* MaxSampleRows lines is posted to /transactions/import/csv.              *)
(***************************************************************************)
InitSample ==
  /\ transactions = <<>>
  /\ issued = 0
  /\ res = NoResponse
  /\ pending \in {[op |-> "upload", file |-> f] : f \in SampleFiles}
  /\ uploads = <<>>

EntryBeforeSample ==
  /\ pending.op \in {"upload", "accepted"}
  /\ issued = 0
  /\ PostTransaction

SendSample ==
  /\ pending.op = "upload"
  /\ ArrivalStep(pending.file)
  /\ pending' = Sent(pending)

AnswerSample ==
  /\ pending.op = "accepted"
  /\ CallbackStep(MaxSampleRows + 1)
  /\ pending' = [op |-> "uploaded", file |-> pending.file]

NextSample == EntryBeforeSample \/ SendSample \/ AnswerSample

SpecSample == InitSample /\ [][NextSample]_vars

(***************************************************************************)
(* One manual entry: a client holds a body and posts it to /transactions;  *)
(* another entry or the arrival of an import may come first, and the       *)
(* callback of the import before or after the entry.                       *)
(***************************************************************************)
InitEntry ==
  /\ transactions = <<>>
  /\ issued = 0
  /\ res = NoResponse
  /\ pending \in {[op |-> "entry", body |-> b] : b \in EntryBodies}
  /\ uploads = <<>>

EntryBeforeEntry == pending.op = "entry" /\ issued = 0 /\ PostTransaction

ImportBeforeEntry == pending.op = "entry" /\ issued = 0 /\ PostImportCsv

CallbackAroundEntry == ImportCallback

SendEntry ==
  /\ pending.op = "entry"
  /\ \E tx \in {builtManual(pending.body, issued + 1)} :
       /\ transactions' = Append(transactions, tx)
       /\ res' = [status |-> 200, route |-> "POST /transactions", body |-> tx]
  /\ issued' = issued + 1
  /\ pending' = [op |-> "entered", body |-> pending.body]
  /\ UNCHANGED uploads

NextEntry ==
  EntryBeforeEntry \/ ImportBeforeEntry \/ CallbackAroundEntry \/ SendEntry

SpecEntry == InitEntry /\ [][NextEntry]_vars

(***************************************************************************)
(* Properties                                                              *)
(***************************************************************************)
Ids == {transactions[i].id : i \in 1..Len(transactions)}

\* C1: every transaction in the store has a non-empty category, whatever
\* manual entries, imports and resets produced the store.
CategoryNeverEmpty ==
  \A i \in 1..Len(transactions) : transactions[i].category # ""

\* an imported row with a blank bank category and a manual entry with an
\* empty name sit in the store, both labelled "Uncategorized"
CategoryNeverEmptyWitness ==
  \E i, j \in 1..Len(transactions) :
    /\ transactions[i].date = "2024-02-02"
    /\ transactions[i].category = "Uncategorized"
    /\ transactions[j].date = "2024-03-01"
    /\ transactions[j].name = "(No description)"
    /\ transactions[j].category = "Uncategorized"

\* the rows of the uploaded document, as csv-parse hands them over
UploadedRows == parse(pending.file[1]).rows

\* the upload was answered with the records it built
Uploaded ==
  /\ pending.op = "uploaded"
  /\ pending.file # Undefined
  /\ res.status = 200

\* every row of the upload became a record: record i comes from row i
AllRowsKept == Uploaded /\ res.imported = Len(UploadedRows)

NameAliases == <<"name", "Description", "Name", "Merchant", "Merchant Name">>

AmountAliases == <<"amount", "Amount", "Transaction Amount", "Amount (USD)">>

DateAliases ==
  <<"date", "Date", "TransactionDate", "Transaction Date", "Trans. Date">>

\* positions of the aliases under which the row holds a non-empty value
Present(r, aliases) ==
  {i \in 1..Len(aliases) : aliases[i] \in DOMAIN r /\ r[aliases[i]] # ""}

\* the value of the first alias that holds one, "" when none does
FirstValue(r, aliases) ==
  IF Present(r, aliases) = {} THEN ""
  ELSE r[aliases[CHOOSE i \in Present(r, aliases) :
                   \A j \in Present(r, aliases) : i <= j]]

CleanedName(r) == trim(FirstValue(r, NameAliases))

BankCategoryOf(r) == IF "Category" \in DOMAIN r THEN r["Category"] ELSE ""

LooksLikeCreditRow(r) ==
  \/ \E w \in {"payment", "credit", "refund", "returned", "return"} :
       includes(toLowerCase(CleanedName(r)), w)
  \/ includes(toLowerCase(BankCategoryOf(r)), "payment")
  \/ includes(toLowerCase(BankCategoryOf(r)), "credit")

\* C2: the stored amount of an imported row is +|amount| when the row looks
\* like a credit and -|amount| otherwise, so its sign never comes from the
\* sign or the parentheses of the raw amount.
ImportSignFromCredit ==
  AllRowsKept =>
    \A i \in 1..Len(UploadedRows) :
      LET r == UploadedRows[i]
          stored == res.sample[i].amount
          magnitude == MathAbs(normalizeAmount(FirstValue(r, AmountAliases)))
      IN /\ stored = IF LooksLikeCreditRow(r) THEN magnitude ELSE Negate(magnitude)
         /\ IF LooksLikeCreditRow(r) THEN ~Negative(stored) ELSE ~Positive(stored)

\* a payment written "(54.23)" is stored as +54.23
ImportSignFromCreditWitness ==
  /\ AllRowsKept
  /\ Len(UploadedRows) = 1
  /\ UploadedRows[1]["name"] = "PAYMENT THANK YOU"
  /\ UploadedRows[1]["amount"] = "(54.23)"
  /\ res.sample[1].amount = RoundRatio(FALSE, BOfInt(5423), BOfInt(100))

\* C3: the category of an imported row is its bank category when that is not
\* blank, else the heuristic's answer for the cleaned name and the signed
\* amount when the name is not empty, else "Uncategorized".
ImportCategoryOrder ==
  AllRowsKept =>
    \A i \in 1..Len(UploadedRows) :
      LET r == UploadedRows[i]
          tx == res.sample[i]
      IN tx.category =
           IF trim(BankCategoryOf(r)) # "" THEN trim(BankCategoryOf(r))
           ELSE IF CleanedName(r) # "" THEN categorize(CleanedName(r), tx.amount)
           ELSE "Uncategorized"

\* the bank category "Gas" wins although the refund is positive and the name
\* holds the keyword starbucks
ImportCategoryOrderWitness ==
  /\ AllRowsKept
  /\ Len(UploadedRows) = 1
  /\ "Description" \in DOMAIN UploadedRows[1]
  /\ UploadedRows[1]["Description"] = "Refund Starbucks"
  /\ UploadedRows[1]["Category"] = "Gas"
  /\ Positive(res.sample[1].amount)
  /\ res.sample[1].category = "Gas"

\* the rules of the heuristic after the test for a positive amount, in order
Rules ==
  << <<"Housing", {"rent"}>>,
     <<"Groceries", {"grocery", "supermarket", "trader", "whole foods"}>>,
     <<"Gas", {"gas", "shell", "exxon", "bp"}>>,
     <<"Transport", {"uber", "lyft", "taxi"}>>,
     <<"Subscriptions", {"netflix", "spotify", "hulu", "disney"}>>,
     <<"Utilities", {"electric", "utility", "water", "coned", "pseg"}>>,
     <<"Internet", {"internet", "verizon", "optimum", "comcast"}>>,
     <<"Coffee", {"coffee", "starbucks", "dunkin"}>>,
     <<"Dining", {"chipotle", "mcdonald", "restaurant", "pizza"}>> >>

Matching(name) ==
  {i \in 1..Len(Rules) : \E k \in Rules[i][2] : includes(toLowerCase(name), k)}

FirstRule(name, amount) ==
  IF Positive(amount) THEN "Income"
  ELSE IF Matching(name) = {} THEN "Uncategorized"
  ELSE Rules[CHOOSE i \in Matching(name) : \A j \in Matching(name) : i <= j][1]

\* C4: for a name that is not blank, categorize returns the label of the
\* first rule that matches in the order Income, Housing, Groceries, Gas,
\* Transport, Subscriptions, Utilities, Internet, Coffee, Dining, and
\* "Uncategorized" when none matches.
CategorizeFirstMatch ==
  (res.route = "categorize" /\ trim(pending.name) # "") =>
    res.category = FirstRule(pending.name, pending.amount)

\* a name with a Gas keyword and a Groceries keyword is labelled Groceries
CategorizeFirstMatchWitness ==
  /\ res.route = "categorize"
  /\ pending.name = "Shell Supermarket"
  /\ pending.amount = Num(-5)
  /\ res.category = "Groceries"

ResolvesDate(r) == Present(r, DateAliases) # {}

ResolvesAmount(r) == Present(r, AmountAliases) # {}

CountRows(rows, Test(_)) == Cardinality({i \in 1..Len(rows) : Test(rows[i])})

NeitherResolves(r) == ~ResolvesDate(r) /\ ~ResolvesAmount(r)

BothResolve(r) == ResolvesDate(r) /\ ResolvesAmount(r)

\* the step that answers the pending upload with the records built: the
\* callback of csv-parse for the document
UploadStep ==
  /\ pending.op = "accepted"
  /\ pending.file # Undefined
  /\ pending'.op = "uploaded"
  /\ res'.status = 200

\* C5: a row in which neither a date nor an amount resolves creates no
\* transaction, is not appended, is not counted, and the rows after it are
\* still processed.
DeadRowsSkipped ==
  [][UploadStep =>
       LET rows == parse(pending.file[1]).rows
       IN /\ Len(transactions') = Len(transactions) + res'.imported
          /\ SubSeq(transactions', 1, Len(transactions)) = transactions
          /\ res'.imported <= Len(rows) - CountRows(rows, NeitherResolves)
          /\ res'.imported >= CountRows(rows, BothResolve)]_vars

\* a row without date and amount, followed by a complete row: one record
DeadRowsSkippedWitness ==
  /\ Uploaded
  /\ Len(UploadedRows) = 2
  /\ NeitherResolves(UploadedRows[1])
  /\ BothResolve(UploadedRows[2])
  /\ res.imported = 1
  /\ transactions[Len(transactions)].name = "Whole Foods Market"

\* C6 as stated: a row is skipped only when both its date and its amount
\* fail to resolve, every other row produces exactly one transaction.
SkippedOnlyWhenBothFail ==
  Uploaded =>
    res.imported = Len(UploadedRows) - CountRows(UploadedRows, NeitherResolves)

\* the amount of a row is present: an alias holds a value, or the document
\* has an Amount column (a blank Amount cell is passed on as "")
AmountPresent(r) == ResolvesAmount(r) \/ "Amount" \in DOMAIN r

KeptRow(r) == ResolvesDate(r) /\ AmountPresent(r)

\* C6 amended: a row is skipped when its date fails to resolve or when its
\* amount is absent, either one suffices; every row with a date and an
\* amount produces exactly one transaction.
SkippedWhenEitherFails ==
  Uploaded => res.imported = CountRows(UploadedRows, KeptRow)

\* a row with a date and no amount is skipped, the complete row is kept
SkippedWhenEitherFailsWitness ==
  /\ Uploaded
  /\ Len(UploadedRows) = 2
  /\ ResolvesDate(UploadedRows[1]) /\ ~AmountPresent(UploadedRows[1])
  /\ KeptRow(UploadedRows[2])
  /\ res.imported = 1

\* the sum of value[i] over the positions i <= n of the store that are in
\* S, added up in the order of the store
RECURSIVE SumOf(_, _, _)
SumOf(S, value, n) ==
  IF n = 0 THEN Num(0)
  ELSE IF n \in S THEN Plus(SumOf(S, value, n - 1), value[n])
  ELSE SumOf(S, value, n - 1)

Income == {i \in 1..Len(transactions) : Positive(transactions[i].amount)}

\* the transactions whose amount is <= 0
Spending ==
  {i \in 1..Len(transactions) :
     Negative(transactions[i].amount) \/ IsZero(transactions[i].amount)}

AmountAt == [i \in 1..Len(transactions) |-> transactions[i].amount]

SpendAt == [i \in 1..Len(transactions) |-> MathAbs(transactions[i].amount)]

SpendingIn(c) == {i \in Spending : transactions[i].category = c}

TotalsAnswered == res.route = "GET /insights/totals"

\* the sum of the values of byCategory, not a number when one of them is a
\* string
RECURSIVE TotalOf(_, _)
TotalOf(byCategory, keys) ==
  IF keys = {} THEN Num(0)
  ELSE Only({IF byCategory[c].t = "number"
             THEN Plus(TotalOf(byCategory, keys \ {c}), byCategory[c].v)
             ELSE NaN :
             c \in {CHOOSE k \in keys : TRUE}})

\* C7: income is the sum of the amounts > 0, expenses the sum of |amount|
\* over the amounts <= 0, net their difference, and byCategory maps each
\* category to the sum of |amount| of its non-positive transactions only,
\* so that its values sum to expenses.
TotalsAreSums ==
  TotalsAnswered =>
    /\ res.body.income = SumOf(Income, AmountAt, Len(transactions))
    /\ res.body.expenses = SumOf(Spending, SpendAt, Len(transactions))
    /\ res.body.net = Minus(SumOf(Income, AmountAt, Len(transactions)),
                            SumOf(Spending, SpendAt, Len(transactions)))
    /\ DOMAIN res.body.byCategory = {transactions[i].category : i \in Spending}
    /\ \A c \in DOMAIN res.body.byCategory :
         res.body.byCategory[c] =
           NumberValue(SumOf(SpendingIn(c), SpendAt, Len(transactions)))
    /\ res.body.expenses = TotalOf(res.body.byCategory, DOMAIN res.body.byCategory)

\* the document of the upload cannot be read as a table: a line that is not
\* empty has more or fewer cells than the header
Unparsable(doc) ==
  \E i \in 1..Len(doc.lines) :
    doc.lines[i] # <<>> /\ Len(doc.lines[i]) # Len(doc.header)

\* C8: when the file field is missing or the document cannot be parsed, the
\* import answers with one failure and the store is what it was before.
FailedImportChangesNothing ==
  [][(/\ pending.op \in {"upload", "accepted"}
      /\ pending'.op = "uploaded"
      /\ (pending.file = Undefined \/ Unparsable(pending.file[1])))
       => /\ res'.status = 400
          /\ transactions' = transactions
          /\ issued' = issued]_vars

\* the second line is one cell short, after a complete first line; the store
\* held a record before and holds only that record after
FailedImportChangesNothingWitness ==
  /\ pending.op = "uploaded"
  /\ pending.file # Undefined
  /\ Len(pending.file[1].lines) = 2
  /\ Len(pending.file[1].lines[1]) = 3
  /\ pending.file[1].lines[1][1].text = "2024-01-05"
  /\ Len(pending.file[1].lines[2]) = 2
  /\ res.status = 400
  /\ res.error = "CSV parse error"
  /\ Len(transactions) = 1

\* C9: a step either is a reset that empties the store, or leaves every
\* record where it was, unchanged, with new records only after it.
RecordsImmutable ==
  [][\/ transactions' = <<>> /\ res'.route = "POST /reset"
     \/ /\ Len(transactions') >= Len(transactions)
        /\ SubSeq(transactions', 1, Len(transactions)) = transactions]_vars

\* a manual entry, two imported records after it, then the advice was read
RecordsImmutableWitness ==
  /\ Len(transactions) = 3
  /\ transactions[1].date = "2024-03-01"
  /\ transactions[2].date = "2024-01-05"
  /\ transactions[3].date = "2024-01-05"
  /\ res.route = "GET /insights/advice"

\* C10: no two transactions of the store have the same id.
IdsUnique ==
  \A i, j \in 1..Len(transactions) :
    i # j => transactions[i].id # transactions[j].id

\* three records built from the same row by two imports, the later one of
\* two lines that are the same
IdsUniqueWitness ==
  /\ Len(transactions) = 3
  /\ \A i \in 1..3 :
       /\ transactions[i].date = "2024-01-05"
       /\ transactions[i].name = "Whole Foods Market"
  /\ issued = 3
  /\ res.route = "POST /transactions/import/csv"
  /\ res.imported = 2
  /\ res.sample = SubSeq(transactions, 2, 3)

\* the name a record gets from its row
StoredName(r) == IF CleanedName(r) = "" THEN "(No description)" ELSE CleanedName(r)

FirstFive(s) == SubSeq(s, 1, IF Len(s) < 5 THEN Len(s) ELSE 5)

\* the records the answered upload appended: the last res.imported records
CreatedRecords ==
  SubSeq(transactions, Len(transactions) - res.imported + 1, Len(transactions))

\* the fields of the response besides the status, the route and the count
ListFields == DOMAIN res \ {"status", "route", "imported"}

\* C11 as stated: a successful import returns the count, the sample of the
\* first five records and the full list of the records it created.
ImportReturnsFullList ==
  Uploaded =>
    /\ res.sample = FirstFive(CreatedRecords)
    /\ \E k \in ListFields : res[k] = CreatedRecords

\* C11 amended: a successful import answers with the count of the records it
\* built and a sample of the first five of them (all when fewer) in row
\* order, and with nothing else; the count is the number of records the
\* import appended to the store, one per kept row in row order, and the
\* full list of them is the new tail of the store, not part of the answer.
ImportReturnsCountAndSample ==
  [][UploadStep =>
       LET kept == SelectSeq(parse(pending.file[1]).rows, KeptRow)
           created == SubSeq(transactions', Len(transactions) + 1, Len(transactions'))
       IN /\ SubSeq(transactions', 1, Len(transactions)) = transactions
          /\ res'.imported = Len(created)
          /\ Len(created) = Len(kept)
          /\ \A i \in 1..Len(created) :
               /\ created[i].date = slice10(FirstValue(kept[i], DateAliases))
               /\ created[i].name = StoredName(kept[i])
          /\ res'.sample = FirstFive(created)
          /\ DOMAIN res' = {"status", "route", "imported", "sample"}]_vars

\* six rows are kept after a manual entry: the count is 6, the sample holds
\* five records and lacks the sixth, which is the last record of the store
ImportReturnsCountAndSampleWitness ==
  /\ Uploaded
  /\ res.imported = 6
  /\ Len(res.sample) = 5
  /\ Len(transactions) = 7
  /\ transactions[1].date = "2024-03-01"
  /\ res.sample[1] = transactions[2]
  /\ res.sample[5] = transactions[6]
  /\ res.sample[1].name # res.sample[2].name
  /\ \A i \in 1..5 : res.sample[i] # transactions[7]

\* the number a caller means by the amount of a body
CallerAmount(a) ==
  IF a.t = "number" THEN Num(a.v)
  ELSE IF a.s = "12" THEN Num(12)
  ELSE IF a.s = "-12.5" THEN RoundRatio(TRUE, BOfInt(25), BOfInt(2))
  ELSE IF a.s = VerticalTab \o "7\f\n" THEN Num(7)
  ELSE IF a.s = "54.23" THEN RoundRatio(FALSE, BOfInt(5423), BOfInt(100))
  ELSE IF a.s = "1e3" THEN Num(1000)
  ELSE IF a.s = "0x10" THEN Num(16)
  ELSE IF a.s = "-Infinity" THEN Infinity(TRUE)
  ELSE IF a.s = "-0" THEN Zero(TRUE)
  ELSE IF a.s = "" THEN Num(0)
  ELSE NaN

CallerName(b) == IF b.name = Undefined THEN "" ELSE trim(b.name[1])

EntryStep == pending.op = "entry" /\ pending'.op = "entered"

\* C12: a manual entry appends exactly one record, whose amount is the
\* caller's amount with its sign, whatever the name says; a body whose
\* trimmed name is empty gets the name "(No description)" and the category
\* "Uncategorized" whatever the amount.
ManualEntryKeepsAmount ==
  [][EntryStep =>
       LET body == pending.body
           tx == res'.body
       IN /\ transactions' = Append(transactions, tx)
          /\ tx.amount = CallerAmount(body.amount)
          /\ CallerName(body) # "" => tx.name = CallerName(body)
          /\ CallerName(body) = "" =>
               tx.name = "(No description)" /\ tx.category = "Uncategorized"]_vars

\* a refund entered with a negative amount stays negative, after an entry
\* without name and with a positive amount that is kept "Uncategorized"
ManualEntryKeepsAmountWitness ==
  /\ pending.op = "entered"
  /\ pending.body.name = Str("Refund coffee")
  /\ pending.body.amount = [t |-> "number", v |-> -950]
  /\ Len(transactions) = 2
  /\ transactions[1].name = "(No description)"
  /\ transactions[1].amount = Num(1000)
  /\ transactions[1].category = "Uncategorized"
  /\ transactions[2].name = "Refund coffee"
  /\ transactions[2].amount = Num(-950)
  /\ res.body = transactions[2]

ReadRoutes ==
  {"GET /transactions", "GET /insights/totals", "GET /insights/summary",
   "GET /insights/advice"}

\* the answer of /insights/totals has nothing in it
ZeroTotals(r) ==
  /\ r.status = 200
  /\ r.body.income = Num(0)
  /\ r.body.expenses = Num(0)
  /\ r.body.net = Num(0)
  /\ DOMAIN r.body.byCategory = {}

\* C13: a reset leaves the store empty whatever it held, also when the store
\* was empty already; reading an empty store leaves it empty; and totals
\* asked of the empty store answers income 0, expenses 0, net 0 and an empty
\* byCategory, without failing.
TotalsAfterReset ==
  [][/\ res'.route = "POST /reset" => transactions' = <<>>
     /\ (transactions = <<>> /\ res'.route \in ReadRoutes) => transactions' = <<>>
     /\ (transactions = <<>> /\ res'.route = "GET /insights/totals")
          => ZeroTotals(res')]_vars

\* every identifier the bound allows was drawn, so the store held records;
\* it is empty now and totals has answered with zeros
TotalsAfterResetWitness ==
  /\ issued = MaxIds
  /\ transactions = <<>>
  /\ TotalsAnswered
  /\ ZeroTotals(res)

IncomeValue == SumOf(Income, AmountAt, Len(transactions))

\* net: income less the sum of |amount| over the amounts that are not > 0
NetValue ==
  Minus(IncomeValue,
        SumOf((1..Len(transactions)) \ Income, SpendAt, Len(transactions)))

\* net / income when income > 0, else 0
RateValue == IF Positive(IncomeValue) THEN Divide(NetValue, IncomeValue) ELSE Num(0)

\* net < 0, and income > 0 with net / income < 0.10, as JavaScript computes
\* and compares numbers; a comparison with a net that is not a number is
\* false
NetBelowZero == Negative(NetValue)

LowSavingsRate == Positive(IncomeValue) /\ LessThan(RateValue, Tenth)

UrgentItem == [title |-> "Spending exceeds income", severity |-> "urgent"]

WarnItem == [title |-> "Low savings rate", severity |-> "warn"]

InfoItem == [title |-> "You're on track", severity |-> "info"]

Holds(items, item) == \E i \in 1..Len(items) : items[i] = item

\* C14: the advice list is never empty and holds each message at most once:
\* the urgent one exactly when net < 0, the warn one exactly when income > 0
\* and net / income < 0.10, the informational one exactly when neither of
\* the two is there; savingsRate is net / income when income > 0, else 0.
AdviceRulesIndependent ==
  /\ res.route = "GET /insights/advice" =>
       /\ Len(res.body) >= 1
       /\ \A i, j \in 1..Len(res.body) : i # j => res.body[i] # res.body[j]
       /\ \A i \in 1..Len(res.body) : res.body[i] \in {UrgentItem, WarnItem, InfoItem}
       /\ Holds(res.body, UrgentItem) <=> NetBelowZero
       /\ Holds(res.body, WarnItem) <=> LowSavingsRate
       /\ Holds(res.body, InfoItem) <=>
            ~Holds(res.body, UrgentItem) /\ ~Holds(res.body, WarnItem)
  /\ res.route = "GET /insights/summary" => res.body.savingsRate = RateValue

\* income 1000 against spending 1900.2: the urgent and the warn message
\* appear together, the informational one does not
AdviceRulesIndependentWitness ==
  /\ res.route = "GET /insights/advice"
  /\ IncomeValue = Num(1000)
  /\ Negative(NetValue)
  /\ res.body = <<UrgentItem, WarnItem>>

====
